---- MODULE Spec2Model ----
(***************************************************************************)
(* abootimg: a model of the boot-image layout engine of src/abootimg.c.    *)
(*                                                                         *)
(* A file is a sequence of cells.  A cell stands for a run of bytes that   *)
(* the program never splits: a data byte of a section, one member group of *)
(* struct boot_img_hdr (magic | the ten words | name, cmdline and id), the *)
(* dtbs_t table header, one dt_entry_t, or the signature array.  Sizes and *)
(* offsets are counted in cells, so the struct sizes of the source (608,   *)
(* 12, 32, 255 bytes) appear scaled: sizeof_boot_img_hdr is 3 cells, the   *)
(* table header and an entry are one cell each, the signature is one cell. *)
(* Page sizes are scaled with them (the default 2048 becomes 4), keeping   *)
(* the order  signature < header < default page.                           *)
(* The C type unsigned is scaled to UINT_BITS bits; every unsigned         *)
(* expression of the source is reduced with U().                           *)
(***************************************************************************)
EXTENDS Integers, Sequences, FiniteSets, TLC

VARIABLES disk, pc, cmd, img, args, out, err, ev, hist, last

vars == <<disk, pc, cmd, img, args, out, err, ev, hist, last>>

----------------------------------------------------------------------------
(* Bounds of the model.                                                    *)

\* Largest section, in cells, of a source image or of a file named on the
\* command line.
MaxSize == 4
\* Largest number of entries of a device tree table given on the command line.
MaxEntries == 2

----------------------------------------------------------------------------
(* Program constants (bootimg.h, abootimg.c), scaled as described above.   *)

BOOT_MAGIC == "ANDROID!"
BOOT_NAME_SIZE == 16
BOOT_ARGS_SIZE == 512
sizeof_boot_img_hdr == 3
sizeof_dtbs_t == 1
sizeof_dt_entry_t == 1
sizeof_signature == 1
DEFAULT_PAGE_SIZE == 4
UINT_BITS == 8
UINT_MOD == 2 ^ UINT_BITS

\* unsigned arithmetic: the value of an unsigned expression
U(x) == x % UINT_MOD

Max(a, b) == IF a >= b THEN a ELSE b
Min(a, b) == IF a <= b THEN a ELSE b

----------------------------------------------------------------------------
(* Cells.                                                                  *)

Byte(tag, i) == [t |-> "b", v |-> tag * 10 + i]
ZERO == [t |-> "b", v |-> 0]
\* a byte whose value the program does not determine (read out of bounds)
GARBAGE == [t |-> "b", v |-> -1]

Blob(tag, len) == [i \in 1..len |-> Byte(tag, i)]
Zeros(len) == [i \in 1..len |-> ZERO]
Garbage(len) == [i \in 1..len |-> GARBAGE]

\* char signature[255] after memcpy(img->signature, "SEANDROIDENFORCE", 17)
SIGNATURE == [t |-> "sig", v |-> "SEANDROIDENFORCE"]

----------------------------------------------------------------------------
(* struct boot_img_hdr and its image in a file.                            *)

HeaderWords ==
    {"kernel_size", "kernel_addr", "ramdisk_size", "ramdisk_addr",
     "second_size", "second_addr", "tags_addr", "page_size", "dtbs_size",
     "unused"}

\* the header new_bootimg() builds: calloc, then magic and page_size
NewHeader ==
    [magic |-> BOOT_MAGIC,
     kernel_size |-> 0, kernel_addr |-> 0,
     ramdisk_size |-> 0, ramdisk_addr |-> 0,
     second_size |-> 0, second_addr |-> 0,
     tags_addr |-> 0, page_size |-> DEFAULT_PAGE_SIZE,
     dtbs_size |-> 0, unused |-> 0,
     name |-> [s |-> "", n |-> 0], cmdline |-> [s |-> "", n |-> 0], id |-> 0]

\* fwrite(&img->header, sizeof(img->header), 1, stream): the struct verbatim
HeaderCells(h) ==
    << [t |-> "magic", v |-> h.magic],
       [t |-> "words",
        v |-> [kernel_size |-> h.kernel_size, kernel_addr |-> h.kernel_addr,
               ramdisk_size |-> h.ramdisk_size, ramdisk_addr |-> h.ramdisk_addr,
               second_size |-> h.second_size, second_addr |-> h.second_addr,
               tags_addr |-> h.tags_addr, page_size |-> h.page_size,
               dtbs_size |-> h.dtbs_size, unused |-> h.unused]],
       [t |-> "text", v |-> [name |-> h.name, cmdline |-> h.cmdline, id |-> h.id]] >>

\* fread(&img->header, sizeof(boot_img_hdr), 1, stream): the cells read as the struct.
\* Cells that hold something else (section bytes, when the page is smaller than
\* the header) are read as whatever they spell: "?" for text, 0 for a zero byte.
HeaderOfCells(c) ==
    LET w == IF c[2].t = "words" THEN c[2].v
             ELSE [f \in HeaderWords |-> IF c[2] = ZERO THEN 0 ELSE UINT_MOD - 1]
        x == IF c[3].t = "text" THEN c[3].v
             ELSE IF c[3] = ZERO
             THEN [name |-> [s |-> "", n |-> 0], cmdline |-> [s |-> "", n |-> 0], id |-> 0]
             ELSE [name |-> [s |-> "?", n |-> 1], cmdline |-> [s |-> "?", n |-> 1],
                   id |-> UINT_MOD - 1]
    IN  [magic |-> IF c[1].t = "magic" THEN c[1].v ELSE "?",
         kernel_size |-> w.kernel_size, kernel_addr |-> w.kernel_addr,
         ramdisk_size |-> w.ramdisk_size, ramdisk_addr |-> w.ramdisk_addr,
         second_size |-> w.second_size, second_addr |-> w.second_addr,
         tags_addr |-> w.tags_addr, page_size |-> w.page_size,
         dtbs_size |-> w.dtbs_size, unused |-> w.unused,
         name |-> x.name, cmdline |-> x.cmdline, id |-> x.id]

----------------------------------------------------------------------------
(* The layout arithmetic, as the source writes it.                         *)

\* a page count that rounds down
FloorCount(size, page_size) == size \div page_size

\* (size + page_size - 1) / page_size, in unsigned arithmetic
PageCount(size, page_size) == U(size + page_size - 1) \div page_size

\* the page counts n, m, o, p of a header
Pages(h) ==
    [n |-> PageCount(h.kernel_size, h.page_size),
     m |-> PageCount(h.ramdisk_size, h.page_size),
     o |-> PageCount(h.second_size, h.page_size),
     p |-> PageCount(h.dtbs_size, h.page_size)]

\* update_images: roffset, soffset, doffset (also write_bootimg's seek targets)
RamdiskOffset(h) == U((1 + Pages(h).n) * h.page_size)
SecondOffset(h) == U((1 + Pages(h).n + Pages(h).m) * h.page_size)
DtbsOffset(h) == U((1 + Pages(h).n + Pages(h).m + Pages(h).o) * h.page_size)
\* write_bootimg: (1+n+m+o+p)*psize
SignatureOffset(h) ==
    U((1 + Pages(h).n + Pages(h).m + Pages(h).o + Pages(h).p) * h.page_size)
\* update_images: total_size = (1+n+m+o+p+1)*page_size
TotalSize(h) ==
    U((1 + Pages(h).n + Pages(h).m + Pages(h).o + Pages(h).p + 1) * h.page_size)

\* check_boot_img_header: total_size = (1+n+m+o+p)*page_size
CheckedSize(h) ==
    U((1 + Pages(h).n + Pages(h).m + Pages(h).o + Pages(h).p) * h.page_size)

\* extract_second: n = (rsize + ksize + psize - 1) / psize; soffset = (1+n)*psize
ExtractSecondOffset(h) ==
    U((1 + (U(h.ramdisk_size + h.kernel_size + h.page_size - 1) \div h.page_size))
      * h.page_size)

\* extract_dtbs: n = (ksize + rsize + ssize + psize-1) / psize; doffset = (1+n)*psize
ExtractDtbsOffset(h) ==
    U((1 + (U(h.kernel_size + h.ramdisk_size + h.second_size + h.page_size - 1)
            \div h.page_size)) * h.page_size)

----------------------------------------------------------------------------
(* Files and streams.                                                      *)

\* fread(buf, len, 1, stream) after fseek(stream, off): one whole item or nothing
ReadAt(data, off, len) ==
    IF len > 0 /\ off + len <= Len(data)
    THEN [ok |-> TRUE, data |-> SubSeq(data, off + 1, off + len)]
    ELSE [ok |-> FALSE, data |-> <<>>]

\* fwrite(buf, len, 1, stream) after fseek(stream, off); a hole reads as zeros
WriteAt(data, off, buf) ==
    IF buf = <<>> THEN data
    ELSE [i \in 1..Max(Len(data), off + Len(buf)) |->
            IF i > off /\ i <= off + Len(buf) THEN buf[i - off]
            ELSE IF i <= Len(data) THEN data[i]
            ELSE ZERO]

----------------------------------------------------------------------------
(* The device tree table: dtbs_t followed by num_entries dt_entry_t.       *)

DtbhCell(num_entries) ==
    [t |-> "dtbh", v |-> [magic |-> "DTBH", version |-> 2, num_entries |-> num_entries]]

DtEntryCell(hw_rev, offset, dtb_size) ==
    [t |-> "dte",
     v |-> [chip_id |-> 1, platform_id |-> 1, subtype_id |-> 1,
            hw_rev |-> hw_rev, hw_rev_end |-> hw_rev,
            offset |-> offset, dtb_size |-> dtb_size]]

\* dtbh->num_entries of a buffer cast to dtbs_t*: -1 when the buffer does not
\* start with a table header (the count is then whatever the bytes spell)
NumEntries(buf) ==
    IF Len(buf) = 0 THEN -1
    ELSE IF buf[1].t = "dtbh" THEN buf[1].v.num_entries
    ELSE IF buf[1] = ZERO THEN 0
    ELSE -1

\* index of dt[ientry] in a buffer: (dt_entry_t *)(d + sizeof(dtbs_t)) + ientry
EntryIndex(ientry) == sizeof_dtbs_t + ientry * sizeof_dt_entry_t + 1

\* dt[ientry] of a buffer; zero bytes are an all-zero entry, other bytes a wild one
EntryAt(buf, ientry) ==
    LET c == IF EntryIndex(ientry) <= Len(buf) THEN buf[EntryIndex(ientry)] ELSE GARBAGE
    IN  IF c.t = "dte" THEN c.v
        ELSE IF c = ZERO
             THEN [chip_id |-> 0, platform_id |-> 0, subtype_id |-> 0, hw_rev |-> 0,
                   hw_rev_end |-> 0, offset |-> 0, dtb_size |-> 0]
        ELSE [chip_id |-> 0, platform_id |-> 0, subtype_id |-> 0, hw_rev |-> 0,
              hw_rev_end |-> 0, offset |-> UINT_MOD - 1, dtb_size |-> UINT_MOD - 1]

----------------------------------------------------------------------------
(* t_abootimg.                                                             *)

NullBuf == [set |-> FALSE, data |-> <<>>]
Buf(data) == [set |-> TRUE, data |-> data]

\* an element of img->dtbs: a buffer of its own (replacement) or d + offset (copy)
OwnPtr(data) == [own |-> TRUE, data |-> data, off |-> 0]
RegionPtr(off) == [own |-> FALSE, data |-> <<>>, off |-> off]

NoFile == [present |-> FALSE, data |-> <<>>]
File(data) == [present |-> TRUE, data |-> data]
NoDtbs == [present |-> FALSE, dtbh |-> <<>>, blobs |-> <<>>]

\* new_bootimg(): calloc, the magic and the default page size
new_bootimg ==
    [size |-> 0, is_blkdev |-> FALSE, header |-> NewHeader,
     kernel |-> NullBuf, ramdisk |-> NullBuf, second |-> NullBuf,
     dtbh |-> NullBuf, dtbs |-> <<>>,
     signature |-> Zeros(sizeof_signature)]

\* one access of the image stream, or one output file, in the order performed
Ev(op, sec, off, len) == [op |-> op, sec |-> sec, off |-> off, len |-> len]

\* the result of a step of a command: st is "ok", "aborted" (abort_perror,
\* abort_printf) or "crashed" (undefined behaviour ended the process)
Ok(i, e) == [st |-> "ok", err |-> "", img |-> i, ev |-> e]
Fail(i, e, why) == [st |-> "aborted", err |-> why, img |-> i, ev |-> e]
Crash(i, e, why) == [st |-> "crashed", err |-> why, img |-> i, ev |-> e]

----------------------------------------------------------------------------
(* check_boot_img_header.                                                  *)

\* a check that does not look at the magic
AnyMagic(h) == TRUE

\* !strncmp(img->header.magic, BOOT_MAGIC, BOOT_MAGIC_SIZE)
MagicOk(h) == h.magic = BOOT_MAGIC

\* total_size > img->size
SizeMismatch(h, size) == CheckedSize(h) > size

\* the value check_boot_img_header returns: TRUE for 1 (rejected)
check_boot_img_header(h, size) ==
    IF ~MagicOk(h) THEN TRUE
    ELSE IF h.kernel_size = 0 THEN TRUE
    ELSE IF h.ramdisk_size = 0 THEN TRUE
    ELSE IF h.page_size = 0 THEN TRUE
    ELSE SizeMismatch(h, size)

\* read_header: fread of the header, fstat (or the device size), the check
read_header(i, d) ==
    IF Len(d.data) < sizeof_boot_img_hdr
    THEN Fail(i, <<Ev("read", "header", 0, sizeof_boot_img_hdr)>>, "io")
    ELSE LET h == HeaderOfCells(SubSeq(d.data, 1, sizeof_boot_img_hdr))
             i1 == [i EXCEPT !.header = h, !.size = U(Len(d.data)), !.is_blkdev = d.blk]
             e == <<Ev("read", "header", 0, sizeof_boot_img_hdr)>>
         IN  IF check_boot_img_header(h, i1.size) THEN Fail(i1, e, "format")
             ELSE Ok(i1, e)

----------------------------------------------------------------------------
(* update_header_entry and update_header.                                  *)

\* a value of the config text: the characters after '=' (s, of length n,
\* kept to the first n characters) and what strtoul makes of them (num)
Text(s, n) == [s |-> s, n |-> n]

ConfigLine(token, s, n, num) ==
    [token |-> token, eq |-> TRUE, value |-> Text(s, n), num |-> num]

K_cmdline == <<"c", "m", "d", "l", "i", "n", "e">>
K_name == <<"n", "a", "m", "e">>
K_bootsize == <<"b", "o", "o", "t", "s", "i", "z", "e">>
K_pagesize == <<"p", "a", "g", "e", "s", "i", "z", "e">>
K_kerneladdr == <<"k", "e", "r", "n", "e", "l", "a", "d", "d", "r">>
K_ramdiskaddr == <<"r", "a", "m", "d", "i", "s", "k", "a", "d", "d", "r">>
K_secondaddr == <<"s", "e", "c", "o", "n", "d", "a", "d", "d", "r">>
K_tagsaddr == <<"t", "a", "g", "s", "a", "d", "d", "r">>

\* !strcmp(token, key)
StrEq(token, key) == token = key
\* !strncmp(token, key, strlen(key))
StrNEq(token, key) ==
    Len(token) >= Len(key) /\ SubSeq(token, 1, Len(key)) = key

update_header_entry(i, line) ==
    LET valuenum == U(line.num)
    IN  IF ~line.eq THEN Fail(i, <<>>, "config")
        ELSE IF StrEq(line.token, K_cmdline)
        THEN IF line.value.n >= BOOT_ARGS_SIZE THEN Fail(i, <<>>, "config")
             ELSE Ok([i EXCEPT !.header.cmdline = line.value], <<>>)
        ELSE IF StrNEq(line.token, K_name)
        THEN Ok([i EXCEPT !.header.name =
                    Text(line.value.s, Min(line.value.n, BOOT_NAME_SIZE - 1))], <<>>)
        ELSE IF StrNEq(line.token, K_bootsize)
        THEN IF i.is_blkdev /\ i.size # valuenum THEN Fail(i, <<>>, "bootsize")
             ELSE Ok([i EXCEPT !.size = valuenum], <<>>)
        ELSE IF StrNEq(line.token, K_pagesize)
        THEN Ok([i EXCEPT !.header.page_size = valuenum], <<>>)
        ELSE IF StrNEq(line.token, K_kerneladdr)
        THEN Ok([i EXCEPT !.header.kernel_addr = valuenum], <<>>)
        ELSE IF StrNEq(line.token, K_ramdiskaddr)
        THEN Ok([i EXCEPT !.header.ramdisk_addr = valuenum], <<>>)
        ELSE IF StrNEq(line.token, K_secondaddr)
        THEN Ok([i EXCEPT !.header.second_addr = valuenum], <<>>)
        ELSE IF StrNEq(line.token, K_tagsaddr)
        THEN Ok([i EXCEPT !.header.tags_addr = valuenum], <<>>)
        ELSE Fail(i, <<>>, "config")

\* update_header: the lines of the config file, then those of the -c arguments
RECURSIVE update_header(_, _)
update_header(i, lines) ==
    IF lines = <<>> THEN Ok(i, <<>>)
    ELSE LET r == update_header_entry(i, Head(lines))
         IN  IF r.st # "ok" THEN r ELSE update_header(r.img, Tail(lines))

----------------------------------------------------------------------------
(* update_images.  The steps take and return a step result; a step after a *)
(* failed one does nothing (the process has exited).  ub names the outcome *)
(* of undefined behaviour the build produces: "crash" or "silent".         *)

\* fopen, fstat, malloc(st_size), fread(buf, st_size, 1, stream) of a named file
FileReadable(f) == Len(f.data) > 0

LoadKernel(r, a) ==
    IF r.st # "ok" \/ ~a.kernel_f.present THEN r
    ELSE IF ~FileReadable(a.kernel_f) THEN Fail(r.img, r.ev, "io")
    ELSE Ok([r.img EXCEPT !.header.kernel_size = U(Len(a.kernel_f.data)),
                          !.kernel = Buf(a.kernel_f.data)], r.ev)

\* a loader that never copies the ramdisk forward
NeverCopyRamdisk(i) == FALSE

\* else if (img->kernel): the ramdisk is copied from the original image
CopyRamdisk(i) == i.kernel.set

LoadRamdisk(r, a, stream, rsize, roffset) ==
    IF r.st # "ok" THEN r
    ELSE IF a.ramdisk_f.present
    THEN IF ~FileReadable(a.ramdisk_f) THEN Fail(r.img, r.ev, "io")
         ELSE Ok([r.img EXCEPT !.header.ramdisk_size = U(Len(a.ramdisk_f.data)),
                               !.ramdisk = Buf(a.ramdisk_f.data)], r.ev)
    ELSE IF CopyRamdisk(r.img)
    THEN LET rd == ReadAt(stream, roffset, rsize)
             e == Append(r.ev, Ev("read", "ramdisk", roffset, rsize))
         IN  IF ~rd.ok THEN Fail(r.img, e, "io")
             ELSE Ok([r.img EXCEPT !.ramdisk = Buf(rd.data)], e)
    ELSE r

\* else if (img->ramdisk && img->header.second_size)
CopySecond(i) == i.ramdisk.set /\ i.header.second_size # 0

LoadSecond(r, a, stream, ssize, soffset) ==
    IF r.st # "ok" THEN r
    ELSE IF a.second_f.present
    THEN IF ~FileReadable(a.second_f) THEN Fail(r.img, r.ev, "io")
         ELSE Ok([r.img EXCEPT !.header.second_size = U(Len(a.second_f.data)),
                               !.second = Buf(a.second_f.data)], r.ev)
    ELSE IF CopySecond(r.img)
    THEN LET rd == ReadAt(stream, soffset, ssize)
             e == Append(r.ev, Ev("read", "second", soffset, ssize))
         IN  IF ~rd.ok THEN Fail(r.img, e, "io")
             ELSE Ok([r.img EXCEPT !.second = Buf(rd.data)], e)
    ELSE r

\* dt[ientry].offset = p * page_size
NewEntryOffset(p, page_size) == U(p * page_size)
\* a loop that gives every blob one page
OnePageEach(p, size, page_size) == U(p + 1)

\* p += (st.st_size + page_size - 1) / page_size
NextPages(p, size, page_size) == U(p + PageCount(size, page_size))

\* the for loop over the entries of a replacement table: d is the table
\* buffer, q the pointers stored so far, p the running page count
RECURSIVE DtbLoop(_, _, _, _, _, _)
DtbLoop(d, blobs, ientry, q, p, page_size) ==
    IF ientry >= NumEntries(d) THEN [st |-> "ok", d |-> d, dtbs |-> q, p |-> p]
    ELSE IF ientry + 1 > Len(blobs) \/ Len(blobs[ientry + 1]) = 0
    THEN [st |-> "aborted", d |-> d, dtbs |-> q, p |-> p]
    ELSE IF EntryIndex(ientry) > Len(d)
    THEN [st |-> "crashed", d |-> d, dtbs |-> q, p |-> p]
    ELSE LET size == U(Len(blobs[ientry + 1]))
             old == EntryAt(d, ientry)
             new == [t |-> "dte",
                     v |-> [old EXCEPT !.offset = NewEntryOffset(p, page_size),
                                       !.dtb_size = size]]
         IN  DtbLoop([d EXCEPT ![EntryIndex(ientry)] = new], blobs, ientry + 1,
                     Append(q, OwnPtr(blobs[ientry + 1])),
                     NextPages(p, size, page_size), page_size)

\* if (img->dtbs_fname): the table file is read into calloc(page_size, 1)
ReplaceDtbs(r, a, page_size, ub) ==
    LET dsize == Len(a.dtbs_f.dtbh)
    IN  IF dsize = 0 THEN Fail(r.img, r.ev, "io")
        ELSE IF dsize > page_size /\ ub = "crash" THEN Crash(r.img, r.ev, "dtbh overflow")
        ELSE LET d == IF dsize > page_size THEN a.dtbs_f.dtbh
                      ELSE a.dtbs_f.dtbh \o Zeros(page_size - dsize)
             IN  IF NumEntries(d) < 0 THEN Crash(r.img, r.ev, "dtbh wild")
                 ELSE LET l == DtbLoop(d, a.dtbs_f.blobs, 0, <<>>, 1, page_size)
                          i1 == [r.img EXCEPT !.dtbh = Buf(l.d), !.dtbs = l.dtbs]
                      IN  IF l.st = "aborted" THEN Fail(i1, r.ev, "io")
                          ELSE IF l.st = "crashed" THEN Crash(i1, r.ev, "dtbh overflow")
                          ELSE Ok([i1 EXCEPT !.header.dtbs_size = U(l.p * page_size)],
                                  r.ev)

\* else if (img->header.dtbs_size): the region is copied from the original image
CopyDtbs(r, stream, dsize, doffset) ==
    LET rd == ReadAt(stream, doffset, dsize)
        e == Append(r.ev, Ev("read", "dtbs", doffset, dsize))
    IN  IF ~rd.ok THEN Fail(r.img, e, "io")
        ELSE IF NumEntries(rd.data) < 0 THEN Crash(r.img, e, "dtbh wild")
        ELSE Ok([r.img EXCEPT
                   !.dtbh = Buf(rd.data),
                   !.dtbs = [k \in 1..NumEntries(rd.data) |->
                                RegionPtr(EntryAt(rd.data, k - 1).offset)]], e)

LoadDtbs(r, a, stream, dsize, doffset, page_size, ub) ==
    IF r.st # "ok" THEN r
    ELSE IF a.dtbs_f.present THEN ReplaceDtbs(r, a, page_size, ub)
    ELSE IF r.img.header.dtbs_size # 0 THEN CopyDtbs(r, stream, dsize, doffset)
    ELSE r

\* a loader that always takes the computed total
AlwaysAdopt(size, total_size) == total_size

\* if (!img->size) img->size = total_size;
AdoptSize(size, total_size) == IF size = 0 THEN total_size ELSE size
\* a loader without the capacity check
NeverTooBig(size, total_size) == FALSE

\* else if (total_size > img->size) abort_printf(... updated is too big ...)
TooBig(size, total_size) == size # 0 /\ total_size > size

\* memcpy of the signature, the new page counts, the size check
FinishImages(r) ==
    IF r.st # "ok" THEN r
    ELSE LET i1 == [r.img EXCEPT !.signature = <<SIGNATURE>> \o Zeros(sizeof_signature - 1)]
             total_size == TotalSize(i1.header)
         IN  IF TooBig(i1.size, total_size) THEN Fail(i1, r.ev, "too big")
             ELSE Ok([i1 EXCEPT !.size = AdoptSize(i1.size, total_size)], r.ev)

\* a loader that does not test the page size
PageSizeNeverNull(i) == FALSE

\* if (!page_size) abort_printf("Image page size is null")
PageSizeNull(i) == i.header.page_size = 0

\* a division by page_size = 0 (line 563) ends the process with a signal
update_images(i, a, stream, ub) ==
    IF PageSizeNull(i) THEN Fail(i, <<>>, "page size is null")
    ELSE IF i.header.page_size = 0 THEN Crash(i, <<>>, "division by zero")
    ELSE LET h == i.header
             r1 == LoadKernel(Ok(i, <<>>), a)
             r2 == LoadRamdisk(r1, a, stream, h.ramdisk_size, RamdiskOffset(h))
             r3 == LoadSecond(r2, a, stream, h.second_size, SecondOffset(h))
             r4 == LoadDtbs(r3, a, stream, h.dtbs_size, DtbsOffset(h), h.page_size, ub)
         IN  FinishImages(r4)

----------------------------------------------------------------------------
(* write_bootimg.  A writer state w holds the file contents, the stream    *)
(* position, the accesses made and whether the process is still running.   *)

\* the first len bytes at a pointer into buf; bytes past the end of the
\* allocation are not determined by the program
Take(buf, off, len) ==
    [k \in 1..len |-> IF off + k <= Len(buf) THEN buf[off + k] ELSE GARBAGE]

OutOfBounds(buf, off, len) == off + len > Len(buf)

\* a writer that never seeks: every section follows the previous write
NoSeek(w, off) == w

\* fseek(img->stream, off, SEEK_SET)
Seek(w, off) == IF w.st # "ok" THEN w ELSE [w EXCEPT !.pos = off]

\* a writer whose fwrite writes nothing
PutNothing(w, buf, sec) == w

\* fwrite(buf, len, 1, img->stream) and the ferror test after it.  A block
\* device takes no byte past its end: the write is cut there and fails.
Put(w, buf, sec) ==
    IF w.st # "ok" \/ buf = <<>> THEN w
    ELSE IF w.blk /\ w.pos + Len(buf) > Len(w.data)
    THEN [w EXCEPT !.data = WriteAt(w.data, w.pos,
                                    SubSeq(buf, 1, Max(0, Len(w.data) - w.pos))),
                   !.ev = Append(w.ev, Ev("write", sec, w.pos, Len(buf))),
                   !.st = "aborted", !.err = "io"]
    ELSE [w EXCEPT !.data = WriteAt(w.data, w.pos, buf),
                   !.pos = w.pos + Len(buf),
                   !.ev = Append(w.ev, Ev("write", sec, w.pos, Len(buf)))]

\* undefined behaviour met while writing: the process dies ("crash"), or
\* goes on with bytes it does not determine ("silent")
Die(w, why) == IF w.st # "ok" THEN w ELSE [w EXCEPT !.st = "crashed", !.err = why]

\* fwrite(padding, psize - sizeof(img->header), 1, stream): padding holds psize
\* zero bytes; a page smaller than the header makes the length wrap around,
\* and the write runs off the buffer until it faults
PutHeaderPadding(w, psize, ub) ==
    IF psize >= sizeof_boot_img_hdr
    THEN Put(w, Zeros(psize - sizeof_boot_img_hdr), "pad")
    ELSE IF ub = "crash" THEN Die(w, "header padding")
    ELSE Die(Put(w, Zeros(psize) \o Garbage(DEFAULT_PAGE_SIZE), "pad"), "header padding")

\* fwrite(padding, psize - (size % psize), 1, stream)
PutPadding(w, size, psize) == Put(w, Zeros(psize - (size % psize)), "pad")

\* if (img->kernel): written where the header padding ended, without a seek
WriteKernel(w, i, psize) ==
    IF ~i.kernel.set THEN w
    ELSE PutPadding(Put(w, Take(i.kernel.data, 0, i.header.kernel_size), "kernel"),
                    i.header.kernel_size, psize)

\* if (img->ramdisk)
WriteRamdisk(w, i, psize) ==
    IF ~i.ramdisk.set THEN w
    ELSE PutPadding(Put(Seek(w, RamdiskOffset(i.header)),
                        Take(i.ramdisk.data, 0, i.header.ramdisk_size), "ramdisk"),
                    i.header.ramdisk_size, psize)

\* if (img->header.second_size)
SecondWritten(i) == i.header.second_size # 0

\* fwrite(img->second, ...) with img->second NULL reads address 0
WriteSecond(w, i, psize) ==
    IF ~SecondWritten(i) THEN w
    ELSE IF ~i.second.set THEN Die(Seek(w, SecondOffset(i.header)), "second is NULL")
    ELSE PutPadding(Put(Seek(w, SecondOffset(i.header)),
                        Take(i.second.data, 0, i.header.second_size), "second"),
                    i.header.second_size, psize)

\* the bytes img->dtbs[ientry] points to
DtbBytes(i, ientry, size) ==
    LET ptr == i.dtbs[ientry + 1]
    IN  IF ptr.own THEN Take(ptr.data, 0, size) ELSE Take(i.dtbh.data, ptr.off, size)

DtbOutOfBounds(i, ientry, size) ==
    LET ptr == i.dtbs[ientry + 1]
    IN  IF ptr.own THEN OutOfBounds(ptr.data, 0, size)
        ELSE OutOfBounds(i.dtbh.data, ptr.off, size)

\* the for loop of write_bootimg over the entries of img->dtbh
RECURSIVE WriteDtbLoop(_, _, _, _, _)
WriteDtbLoop(w, i, ientry, psize, ub) ==
    IF w.st # "ok" \/ ientry >= NumEntries(i.dtbh.data) THEN w
    ELSE LET size == EntryAt(i.dtbh.data, ientry).dtb_size
         IN  IF ientry + 1 > Len(i.dtbs) THEN Die(w, "dtbs pointer")
             ELSE IF DtbOutOfBounds(i, ientry, size) /\ ub = "crash"
             THEN Die(w, "dtb out of bounds")
             ELSE LET w1 == Put(w, DtbBytes(i, ientry, size), "dtb")
                      w2 == IF size % psize > 0 THEN PutPadding(w1, size, psize) ELSE w1
                  IN  WriteDtbLoop(w2, i, ientry + 1, psize, ub)

\* if (img->dtbh): one page of the table, then the blobs
WriteDtbs(w, i, psize, ub) ==
    IF ~i.dtbh.set THEN w
    ELSE WriteDtbLoop(Put(Seek(w, DtbsOffset(i.header)), Take(i.dtbh.data, 0, psize), "dtbh"),
                      i, 0, psize, ub)

WriteSignature(w, i, psize) ==
    PutPadding(Put(Seek(w, SignatureOffset(i.header)), i.signature, "signature"),
               sizeof_signature, psize)

write_bootimg(i, d, ub) ==
    LET psize == i.header.page_size
        w0 == [data |-> d.data, blk |-> d.blk, pos |-> 0, ev |-> <<>>, st |-> "ok",
               err |-> ""]
        w1 == PutHeaderPadding(Put(w0, HeaderCells(i.header), "header"), psize, ub)
        w2 == WriteKernel(w1, i, psize)
        w3 == WriteRamdisk(w2, i, psize)
        w4 == WriteSecond(w3, i, psize)
        w5 == WriteDtbs(w4, i, psize, ub)
    IN  WriteSignature(w5, i, psize)

----------------------------------------------------------------------------
(* The extract command: the files it writes.                               *)

NoOutput ==
    [config |-> [present |-> FALSE, v |-> <<>>],
     kernel |-> NoFile, ramdisk |-> NoFile, second |-> NoFile,
     dtbh |-> NoFile, dtbs |-> <<>>]

\* an extraction state x: the step result with the output files so far
XFail(x, e, why) == [x EXCEPT !.st = "aborted", !.err = why, !.ev = e]
XCrash(x, e, why) == [x EXCEPT !.st = "crashed", !.err = why, !.ev = e]

\* write_bootimg_config: the fprintf lines of the config file
write_bootimg_config(x, i) ==
    [x EXCEPT !.out.config =
        [present |-> TRUE,
         v |-> <<[bootsize |-> i.size, pagesize |-> i.header.page_size,
                  kerneladdr |-> i.header.kernel_addr,
                  ramdiskaddr |-> i.header.ramdisk_addr,
                  secondaddr |-> i.header.second_addr,
                  tagsaddr |-> i.header.tags_addr,
                  name |-> i.header.name, cmdline |-> i.header.cmdline]>>]]

extract_kernel(x, i, stream) ==
    IF x.st # "ok" THEN x
    ELSE LET psize == i.header.page_size
             ksize == i.header.kernel_size
             rd == ReadAt(stream, psize, ksize)
             e == Append(x.ev, Ev("read", "kernel", psize, ksize))
         IN  IF ~rd.ok THEN XFail(x, e, "io")
             ELSE [x EXCEPT !.ev = e, !.out.kernel = File(rd.data)]

extract_ramdisk(x, i, stream) ==
    IF x.st # "ok" THEN x
    ELSE LET rsize == i.header.ramdisk_size
             roffset == RamdiskOffset(i.header)
             rd == ReadAt(stream, roffset, rsize)
             e == Append(x.ev, Ev("read", "ramdisk", roffset, rsize))
         IN  IF ~rd.ok THEN XFail(x, e, "io")
             ELSE [x EXCEPT !.ev = e, !.out.ramdisk = File(rd.data)]

\* an extraction that does not test ssize
SecondAlwaysPresent(i) == TRUE

\* if (!ssize) return;
SecondPresent(i) == i.header.second_size # 0

extract_second(x, i, stream) ==
    IF x.st # "ok" \/ ~SecondPresent(i) THEN x
    ELSE LET ssize == i.header.second_size
             soffset == ExtractSecondOffset(i.header)
             rd == ReadAt(stream, soffset, ssize)
             e == Append(x.ev, Ev("read", "second", soffset, ssize))
         IN  IF ~rd.ok THEN XFail(x, e, "io")
             ELSE [x EXCEPT !.ev = e, !.out.second = File(rd.data)]

\* the for loop of extract_dtbs: one file per entry, from d + dt[ientry].offset
ExtractedDtbs(d, ientry) ==
    LET en == EntryAt(d, ientry) IN Take(d, en.offset, en.dtb_size)

extract_dtbs(x, i, stream, ub) ==
    IF x.st # "ok" THEN x
    ELSE LET dsize == i.header.dtbs_size
             doffset == ExtractDtbsOffset(i.header)
             rd == ReadAt(stream, doffset, dsize)
             e == Append(x.ev, Ev("read", "dtbs", doffset, dsize))
             d == rd.data
             num == NumEntries(d)
             dtbhsize == sizeof_dtbs_t + sizeof_dt_entry_t * num
             wild == \E k \in 0..(num - 1) :
                        OutOfBounds(d, EntryAt(d, k).offset, EntryAt(d, k).dtb_size)
         IN  IF ~rd.ok THEN XFail(x, e, "io")
             ELSE IF num < 0 THEN XCrash(x, e, "dtbh wild")
             ELSE IF (OutOfBounds(d, 0, dtbhsize) \/ wild) /\ ub = "crash"
             THEN XCrash([x EXCEPT !.out.dtbh = File(Take(d, 0, dtbhsize))], e,
                         "dtb out of bounds")
             ELSE [x EXCEPT !.ev = e,
                            !.out.dtbh = File(Take(d, 0, dtbhsize)),
                            !.out.dtbs = [k \in 1..num |-> ExtractedDtbs(d, k - 1)]]

\* case extract: of main, after read_header
extract_all(i, stream, ub) ==
    LET x0 == [st |-> "ok", err |-> "", ev |-> <<>>, out |-> NoOutput]
        x1 == write_bootimg_config(x0, i)
        x2 == extract_kernel(x1, i, stream)
        x3 == extract_ramdisk(x2, i, stream)
        x4 == extract_second(x3, i, stream)
    IN  extract_dtbs(x4, i, stream, ub)

\* print_dtbh_info: the region is read at doffset = (1+n+m+o)*page_size
print_dtbh_info(i, stream) ==
    LET dsize == i.header.dtbs_size
        doffset == DtbsOffset(i.header)
        rd == ReadAt(stream, doffset, dsize)
        e == <<Ev("read", "dtbs", doffset, dsize)>>
    IN  IF ~rd.ok THEN Fail(i, e, "io")
        ELSE IF NumEntries(rd.data) < 0 THEN Crash(i, e, "dtbh wild")
        ELSE Ok(i, e)

----------------------------------------------------------------------------
(* The environment: the files a command can find on disk, laid out as the  *)
(* comment of bootimg.h describes, and the files named on a command line.  *)

CeilDiv(a, b) == IF a = 0 THEN 0 ELSE ((a - 1) \div b) + 1

PadTo(data, len) == IF Len(data) >= len THEN data ELSE data \o Zeros(len - Len(data))

\* a device tree region with one blob of one byte, as the writer lays it out
SrcDtbRegion(ps) ==
    PadTo(<<DtbhCell(1), DtEntryCell(1, ps, 1)>>, ps) \o PadTo(Blob(4, 1), ps)

SrcHeader(ps, k, r, s, d) ==
    [NewHeader EXCEPT !.page_size = ps, !.kernel_size = k, !.ramdisk_size = r,
                      !.second_size = s, !.dtbs_size = IF d THEN 2 * ps ELSE 0,
                      !.kernel_addr = 1, !.ramdisk_addr = 2, !.second_addr = 3,
                      !.tags_addr = 4,
                      !.name = [s |-> "boot", n |-> 4],
                      !.cmdline = [s |-> "console", n |-> 7], !.id = 5]

\* the image of header h: tail = 0 ends it before the signature page, 1 after
\* it, more leaves unused pages behind it
SrcImage(h, tail) ==
    LET ps == h.page_size
        n == CeilDiv(h.kernel_size, ps)
        m == CeilDiv(h.ramdisk_size, ps)
        o == CeilDiv(h.second_size, ps)
        p == CeilDiv(h.dtbs_size, ps)
        f1 == WriteAt(<<>>, 0, HeaderCells(h))
        f2 == WriteAt(f1, ps, Blob(1, h.kernel_size))
        f3 == WriteAt(f2, (1 + n) * ps, Blob(2, h.ramdisk_size))
        f4 == WriteAt(f3, (1 + n + m) * ps, Blob(3, h.second_size))
        f5 == IF h.dtbs_size = 0 THEN f4
              ELSE WriteAt(f4, (1 + n + m + o) * ps, SrcDtbRegion(ps))
        f6 == PadTo(f5, (1 + n + m + o + p) * ps)
    IN  IF tail = 0 THEN f6
        ELSE PadTo(WriteAt(f6, (1 + n + m + o + p) * ps, <<SIGNATURE>>),
                   (1 + n + m + o + p + tail) * ps)

RegularFile(data) == [exists |-> TRUE, blk |-> FALSE, data |-> data]
BlockDevice(data) == [exists |-> TRUE, blk |-> TRUE, data |-> data]
NoDisk == [exists |-> FALSE, blk |-> FALSE, data |-> <<>>]

SrcPageSizes == {2, 3, 4}

\* well-formed images
GoodImages ==
    {RegularFile(SrcImage(SrcHeader(ps, k, r, sd[1], sd[2]), tail)) :
        ps \in SrcPageSizes, k \in {1, MaxSize}, r \in {MaxSize - 1},
        sd \in {<<0, FALSE>>, <<1, FALSE>>, <<1, TRUE>>}, tail \in {1, 3}}

\* images cut before the signature page
CutImages ==
    {RegularFile(SrcImage(SrcHeader(ps, 1, 1, s, FALSE), 0)) :
        ps \in {3, 4}, s \in {0, 1}}

\* files a reader must refuse: the fields of a good image overwritten
BadHeaders ==
    LET h == SrcHeader(DEFAULT_PAGE_SIZE, 1, 1, 0, FALSE)
    IN  {[h EXCEPT !.magic = "ANDROID?"], [h EXCEPT !.kernel_size = 0],
         [h EXCEPT !.ramdisk_size = 0], [h EXCEPT !.page_size = 0]}

BadImages ==
    {RegularFile(WriteAt(SrcImage(SrcHeader(DEFAULT_PAGE_SIZE, 1, 1, 0, FALSE), 1),
                         0, HeaderCells(h))) : h \in BadHeaders}
    \cup {RegularFile(Blob(9, 2)), RegularFile(Blob(9, 8))}

\* block devices: one holding an image exactly, one larger, one blank
Devices ==
    {BlockDevice(SrcImage(SrcHeader(3, 1, 1, 0, FALSE), tail)) : tail \in {1, 3}}
    \cup {BlockDevice(Zeros(4 * DEFAULT_PAGE_SIZE))}

\* a device tree region laid out by another tool: two blobs of one byte that
\* share the page after the table, which the header check does not look at
PackedDtbRegion(ps) ==
    PadTo(<<DtbhCell(2), DtEntryCell(1, ps, 1), DtEntryCell(2, ps + 1, 1)>>, ps)
    \o PadTo(Blob(4, 1) \o Blob(5, 1), ps)

PackedImages ==
    LET h == SrcHeader(DEFAULT_PAGE_SIZE, 1, MaxSize - 1, 0, TRUE)
    IN  {RegularFile(WriteAt(SrcImage(h, 1), DtbsOffset(h),
                             PackedDtbRegion(h.page_size)))}

\* an image whose header carries a kernel_size close to the largest unsigned
\* value, so that kernel_size + page_size - 1 wraps around
WrapImages ==
    LET h == SrcHeader(DEFAULT_PAGE_SIZE, 1, MaxSize - 1, 0, FALSE)
    IN  {RegularFile(WriteAt(SrcImage(h, 1), 0,
                             HeaderCells([h EXCEPT !.kernel_size = UINT_MOD - 2])))}

Disks ==
    {NoDisk} \cup GoodImages \cup CutImages \cup BadImages \cup Devices
    \cup PackedImages \cup WrapImages

\* a table file with n entries (stale offsets and sizes) and its blob files,
\* of sizes a, b, a, ...
DtbsInput(n, a, b) ==
    [present |-> TRUE,
     dtbh |-> <<DtbhCell(n)>> \o [k \in 1..n |-> DtEntryCell(k, 7, 7)],
     blobs |-> [k \in 1..n |-> Blob(13 + k, IF k % 2 = 1 THEN a ELSE b)]]

\* the files named with -k, -r, -s, -d
Files(k, r, s, d) ==
    [kernel_f |-> IF k = 0 THEN NoFile ELSE File(Blob(11, k)),
     ramdisk_f |-> IF r = 0 THEN NoFile ELSE File(Blob(12, r)),
     second_f |-> IF s = 0 THEN NoFile ELSE File(Blob(13, s)),
     dtbs_f |-> d]

FileSets ==
    {Files(0, 0, 0, NoDtbs),
     Files(1, 0, 0, NoDtbs), Files(MaxSize, 0, 0, NoDtbs),
     Files(0, 1, 0, NoDtbs), Files(0, MaxSize, 0, NoDtbs),
     Files(0, 0, MaxSize - 1, NoDtbs),
     Files(0, 0, 0, DtbsInput(1, 1, 1)),
     Files(0, 0, 0, DtbsInput(MaxEntries, MaxSize, 1)),
     Files(0, 0, 0, DtbsInput(MaxEntries + 1, 1, 1)),
     Files(1, 1, 0, NoDtbs), Files(MaxSize, MaxSize - 1, 0, NoDtbs),
     Files(1, 1, 1, NoDtbs), Files(MaxSize, 1, MaxSize - 1, DtbsInput(1, 1, 1)),
     Files(1, MaxSize, 0, DtbsInput(MaxEntries, MaxSize, 1))}

\* config texts: nothing, or one line; the last two have keys that are not
\* config keys ("names", "foo")
ConfigLines ==
    {ConfigLine(K_cmdline, "quiet", 5, 0),
     ConfigLine(K_pagesize, "0", 1, 0),
     ConfigLine(K_pagesize, "3", 1, 3),
     ConfigLine(K_bootsize, "12", 2, 12),
     ConfigLine(K_bootsize, "40", 2, 40),
     ConfigLine(K_name \o <<"s">>, "x", 1, 0),
     ConfigLine(<<"f", "o", "o">>, "1", 1, 1)}

Configs == {<<>>} \cup {<<l>> : l \in ConfigLines}

NoArgs ==
    [config |-> <<>>, kernel_f |-> NoFile, ramdisk_f |-> NoFile,
     second_f |-> NoFile, dtbs_f |-> NoDtbs]

Commands == {"info", "extract", "update", "create", "dtbs"}
\* the command run after an update or a create, on the file it left
FollowUps == {"extract"}
Outcomes == {"crash", "silent"}
Terminal == {"done", "aborted", "crashed", "usage"}

NoLast == [cmd |-> "none", pc |-> "none", img |-> new_bootimg, args |-> NoArgs]
NoHist == [disk0 |-> NoDisk, size0 |-> 0, hdr0 |-> NewHeader]

----------------------------------------------------------------------------
(* The state machine: main().  pc names the call main makes next.          *)

Init ==
    /\ disk \in Disks
    /\ pc = "start"
    /\ cmd = "none"
    /\ img = new_bootimg
    /\ args = NoArgs
    /\ out = NoOutput
    /\ err = ""
    /\ ev = <<>>
    /\ hist = NoHist
    /\ last = NoLast

\* the step result r ends the step: the next call, or the exit
Step(r, next) ==
    /\ img' = r.img
    /\ ev' = ev \o r.ev
    /\ err' = r.err
    /\ pc' = IF r.st = "ok" THEN next ELSE r.st

\* parse_args: the command; a second command is one of FollowUps
Start ==
    /\ pc = "start"
    /\ \E c \in (IF last.cmd = "none" THEN Commands ELSE FollowUps) :
          /\ cmd' = c
          /\ pc' = IF c = "create" THEN "open_create" ELSE "open"
    /\ hist' = [NoHist EXCEPT !.disk0 = disk]
    /\ UNCHANGED <<disk, img, args, out, err, ev, last>>

\* case create: without -k or -r main prints the usage and returns
Usage ==
    /\ pc = "open_create"
    /\ pc' = "usage"
    /\ UNCHANGED <<disk, cmd, img, args, out, err, ev, hist, last>>

\* open_bootimg(img, "r") and open_bootimg(img, "r+")
OpenBootimg ==
    /\ pc = "open"
    /\ IF disk.exists
       THEN pc' = "read_header" /\ err' = err
       ELSE pc' = "aborted" /\ err' = "io"
    /\ UNCHANGED <<disk, cmd, img, args, out, ev, hist, last>>

\* check_if_block_device, then open_bootimg(img, "w").  Built with HAS_BLKID
\* (blkid) a block device gives img->size and is_blkdev; fopen "w" creates or
\* empties a regular file and leaves a device as it is.  For a path that does
\* not exist stat leaves st unset, and S_ISBLK(st.st_mode) reads it: taken as
\* a device, open fails and the command aborts.
OpenCreate ==
    /\ pc = "open_create"
    /\ \E blkid \in BOOLEAN, ub \in Outcomes :
          IF blkid /\ ~disk.exists /\ ub = "crash"
          THEN /\ pc' = "aborted"
               /\ err' = "io"
               /\ UNCHANGED <<disk, img>>
          ELSE /\ pc' = "update_header"
               /\ err' = err
               /\ img' = IF blkid /\ disk.exists /\ disk.blk
                         THEN [img EXCEPT !.is_blkdev = TRUE, !.size = U(Len(disk.data))]
                         ELSE img
               /\ disk' = IF disk.exists /\ disk.blk THEN disk ELSE RegularFile(<<>>)
    /\ UNCHANGED <<cmd, args, out, ev, hist, last>>

ReadHeader ==
    /\ pc = "read_header"
    /\ Step(read_header(img, disk),
            CASE cmd = "info" -> "print_info"
              [] cmd = "extract" -> "extract"
              [] cmd = "dtbs" -> "print_dtbh"
              [] OTHER -> "update_header")
    /\ UNCHANGED <<disk, cmd, args, out, hist, last>>

\* print_bootimg_info
PrintInfo ==
    /\ pc = "print_info"
    /\ pc' = "done"
    /\ UNCHANGED <<disk, cmd, img, args, out, err, ev, hist, last>>

PrintDtbhInfo ==
    /\ pc = "print_dtbh"
    /\ Step(print_dtbh_info(img, disk.data), "done")
    /\ UNCHANGED <<disk, cmd, args, out, hist, last>>

\* write_bootimg_config, extract_kernel, extract_ramdisk, extract_second,
\* extract_dtbs, extract_signature
Extract ==
    /\ pc = "extract"
    /\ \E ub \in Outcomes :
          LET x == extract_all(img, disk.data, ub)
          IN  /\ out' = x.out
              /\ ev' = ev \o x.ev
              /\ err' = x.err
              /\ pc' = IF x.st = "ok" THEN "done" ELSE x.st
    /\ UNCHANGED <<disk, cmd, img, args, hist, last>>

\* update_header: the config text is an input of the command
UpdateHeader ==
    /\ pc = "update_header"
    /\ \E c \in Configs :
          /\ args' = [args EXCEPT !.config = c]
          /\ Step(update_header(img, c), "update_images")
    /\ UNCHANGED <<disk, cmd, out, hist, last>>

\* update_images: the files named with -k, -r, -s, -d are inputs of the
\* command; create has a kernel and a ramdisk
UpdateImages ==
    /\ pc = "update_images"
    /\ \E f \in FileSets, ub \in Outcomes :
          /\ cmd = "create" => f.kernel_f.present /\ f.ramdisk_f.present
          /\ args' = [args EXCEPT !.kernel_f = f.kernel_f, !.ramdisk_f = f.ramdisk_f,
                                  !.second_f = f.second_f, !.dtbs_f = f.dtbs_f]
          /\ Step(update_images(img, args', disk.data, ub),
                  IF cmd = "create" THEN "check" ELSE "write")
    /\ hist' = [hist EXCEPT !.size0 = img.size, !.hdr0 = img.header]
    /\ UNCHANGED <<disk, cmd, out, last>>

\* case create: if (check_boot_img_header(bootimg)) abort_printf(...)
CheckCreate ==
    /\ pc = "check"
    /\ IF check_boot_img_header(img.header, img.size)
       THEN pc' = "aborted" /\ err' = "sanity"
       ELSE pc' = "write" /\ err' = err
    /\ UNCHANGED <<disk, cmd, img, args, out, ev, hist, last>>

WriteBootimg ==
    /\ pc = "write"
    /\ \E ub \in Outcomes :
          LET w == write_bootimg(img, disk, ub)
          IN  /\ disk' = [disk EXCEPT !.data = w.data]
              /\ ev' = ev \o w.ev
              /\ err' = w.err
              /\ pc' = IF w.st = "ok" THEN "done" ELSE w.st
    /\ UNCHANGED <<cmd, img, args, out, hist, last>>

\* the process has exited; the next command starts from new_bootimg()
NextCommand ==
    /\ pc \in Terminal
    /\ cmd \in {"update", "create"}
    /\ last.cmd = "none"
    /\ last' = [cmd |-> cmd, pc |-> pc, img |-> img, args |-> args]
    /\ pc' = "start"
    /\ cmd' = "none"
    /\ img' = new_bootimg
    /\ args' = NoArgs
    /\ out' = NoOutput
    /\ err' = ""
    /\ ev' = <<>>
    /\ hist' = NoHist
    /\ UNCHANGED disk

Next ==
    \/ Start
    \/ Usage
    \/ OpenBootimg
    \/ OpenCreate
    \/ ReadHeader
    \/ PrintInfo
    \/ PrintDtbhInfo
    \/ Extract
    \/ UpdateHeader
    \/ UpdateImages
    \/ CheckCreate
    \/ WriteBootimg
    \/ NextCommand

Spec == Init /\ [][Next]_vars

----------------------------------------------------------------------------
(* Properties.  The layout of the comment in bootimg.h, computed exactly   *)
(* (no wrap-around), is what the properties compare the program with.      *)

ExactPages(h) ==
    [n |-> CeilDiv(h.kernel_size, h.page_size),
     m |-> CeilDiv(h.ramdisk_size, h.page_size),
     o |-> CeilDiv(h.second_size, h.page_size),
     p |-> CeilDiv(h.dtbs_size, h.page_size)]

ExactSignatureOff(h) ==
    (1 + ExactPages(h).n + ExactPages(h).m + ExactPages(h).o + ExactPages(h).p)
    * h.page_size

ExactTotal(h) == ExactSignatureOff(h) + h.page_size

\* the header stored in a file
StoredHeader(d) == HeaderOfCells(SubSeq(d.data, 1, sizeof_boot_img_hdr))

\* the command has ended, after doing at least part of its work
Ended == pc \in {"done", "aborted", "crashed"}

NoFilesNamed ==
    /\ ~args.kernel_f.present
    /\ ~args.ramdisk_f.present
    /\ ~args.second_f.present
    /\ ~args.dtbs_f.present

\* no size and no sum of the header wraps around
NoWrap(h) ==
    /\ h.page_size > 0
    /\ \A f \in {"kernel_size", "ramdisk_size", "second_size", "dtbs_size"} :
          h[f] + h.page_size - 1 < UINT_MOD
    /\ ExactTotal(h) < UINT_MOD

\* a finished update that named a kernel and nothing else, on an image whose
\* header fits its page and whose sizes do not wrap around
KernelOnlyUpdate ==
    /\ cmd = "update"
    /\ pc = "done"
    /\ args.config = <<>>
    /\ args.kernel_f.present
    /\ ~args.ramdisk_f.present
    /\ ~args.second_f.present
    /\ ~args.dtbs_f.present
    /\ hist.hdr0.page_size >= sizeof_boot_img_hdr
    /\ NoWrap(hist.hdr0)

\* C1: after an update that replaces only the kernel and has no config, the
\* file holds at (1+n')*page_size the ramdisk_size bytes the source held at
\* (1+n)*page_size, n and n' being the old and new kernel page counts, and
\* ramdisk_size is unchanged in memory and in the stored header.
RamdiskCopiedForward ==
    KernelOnlyUpdate =>
        LET h0 == hist.hdr0
            ps == h0.page_size
            n0 == CeilDiv(h0.kernel_size, ps)
            n1 == CeilDiv(Len(args.kernel_f.data), ps)
            src == ReadAt(hist.disk0.data, (1 + n0) * ps, h0.ramdisk_size)
            dst == ReadAt(disk.data, (1 + n1) * ps, h0.ramdisk_size)
        IN  /\ src.ok
            /\ dst.ok
            /\ dst.data = src.data
            /\ img.header.ramdisk_size = h0.ramdisk_size
            /\ StoredHeader(disk).ramdisk_size = h0.ramdisk_size

\* a kernel-only update that moved the ramdisk to a later page
RamdiskMovedByLargerKernel ==
    /\ KernelOnlyUpdate
    /\ CeilDiv(Len(args.kernel_f.data), hist.hdr0.page_size)
         > CeilDiv(hist.hdr0.kernel_size, hist.hdr0.page_size)

\* an extract that ran on the file a completed create left, the page of the
\* image being large enough for the header
ExtractAfterCreate ==
    /\ cmd = "extract"
    /\ Ended
    /\ last.cmd = "create"
    /\ last.pc = "done"
    /\ last.img.header.page_size >= sizeof_boot_img_hdr

\* C2: create then extract gives back the header fields and the bytes of the
\* kernel, the ramdisk, the second stage and every device tree blob.
CreateExtractRoundTrip ==
    ExtractAfterCreate =>
        /\ img.header = last.img.header
        /\ out.kernel = File(last.img.kernel.data)
        /\ out.ramdisk = File(last.img.ramdisk.data)
        /\ last.img.second.set => out.second = File(last.img.second.data)
        /\ last.img.dtbh.set =>
              /\ Len(out.dtbs) = Len(last.img.dtbs)
              /\ \A k \in 1..Len(last.img.dtbs) : out.dtbs[k] = last.img.dtbs[k].data

ReadCommands == {"info", "extract", "update", "dtbs"}

\* a command that reads an image has read the header of its file
HeaderWasRead ==
    /\ cmd \in ReadCommands
    /\ pc \notin {"start", "open", "read_header"}
    /\ hist.disk0.exists
    /\ Len(hist.disk0.data) >= sizeof_boot_img_hdr

\* read_header's abort_printf("not a valid Android Boot Image")
RejectedByReader == pc = "aborted" /\ err = "format"

\* the conditions of rejection the layout of bootimg.h gives, the total
\* counting the signature page
MustReject(h, size) ==
    \/ h.magic # "ANDROID!"
    \/ h.kernel_size = 0
    \/ h.ramdisk_size = 0
    \/ h.page_size = 0
    \/ ExactTotal(h) > size

\* C3: a file is rejected by the reader exactly when its magic is wrong, its
\* kernel_size, ramdisk_size or page_size is 0, or its layout total_size,
\* signature page included, exceeds the size of the file.
ReaderRejectsExactly ==
    HeaderWasRead =>
        (RejectedByReader
            <=> MustReject(StoredHeader(hist.disk0), Len(hist.disk0.data)))

\* update_images' abort_printf("updated is too big for the Boot Image")
CapacityError == pc = "aborted" /\ err = "too big"

\* C4: when update or create fails because the layout exceeds the fixed
\* capacity, the contents and the length of the target are as they were
\* before the command.
CapacityErrorLeavesTarget == CapacityError => disk.data = hist.disk0.data

\* the accesses of a section made by the command so far
Accesses(op, sec) == {k \in 1..Len(ev) : ev[k].op = op /\ ev[k].sec = sec}

NoSecondStageAccess ==
    img.header.second_size = 0 => \A k \in 1..Len(ev) : ev[k].sec # "second"

\* an extract of an image without second stage, left by an update that
\* replaced the ramdisk of it and wrote the image back
ExtractWithoutSecond ==
    /\ cmd = "extract"
    /\ Ended
    /\ img.header.second_size = 0
    /\ Accesses("read", "ramdisk") # {}
    /\ last.cmd = "update"
    /\ last.pc = "done"
    /\ last.img.ramdisk.set
    /\ last.img.header.second_size = 0

\* the pages the first k blobs take
RECURSIVE BlobPages(_, _, _)
BlobPages(blobs, k, page_size) ==
    IF k = 0 THEN 0
    ELSE BlobPages(blobs, k - 1, page_size) + CeilDiv(Len(blobs[k]), page_size)

\* update_images has replaced the device tree table, the table file fitting
\* the page allocated for it
DtbsReplaced ==
    /\ pc \in {"check", "write", "done"}
    /\ args.dtbs_f.present
    /\ img.dtbh.set
    /\ Len(args.dtbs_f.dtbh) <= img.header.page_size

BadMagic(d) == Len(d.data) = 0 \/ d.data[1] # [t |-> "magic", v |-> BOOT_MAGIC]

\* C8: info, extract, update and dtbs reject a file that does not start with
\* "ANDROID!" before reading a section, writing to the file or producing an
\* output file.
BadMagicTouchesNothing ==
    (cmd \in ReadCommands /\ hist.disk0.exists /\ BadMagic(hist.disk0)) =>
        /\ pc \in {"open", "read_header", "aborted"}
        /\ \A k \in 1..Len(ev) : ev[k].op = "read" /\ ev[k].sec = "header"
        /\ out = NoOutput
        /\ disk = hist.disk0

\* a file with a wrong magic and an otherwise acceptable header, rejected
BadMagicRejected ==
    /\ cmd \in ReadCommands
    /\ BadMagic(hist.disk0)
    /\ Len(hist.disk0.data) >= sizeof_boot_img_hdr
    /\ ~check_boot_img_header([StoredHeader(hist.disk0) EXCEPT !.magic = BOOT_MAGIC],
                              Len(hist.disk0.data))
    /\ RejectedByReader

\* an update that named no file and at most a cmdline, ended, on an image
\* the reader accepts, complete with its signature page, whose header fits
\* its page
HeaderOnlyUpdate ==
    /\ cmd = "update"
    /\ Ended
    /\ ~RejectedByReader
    /\ hist.disk0.exists
    /\ Len(hist.disk0.data) >= sizeof_boot_img_hdr
    /\ args.config \in {<<>>, <<ConfigLine(K_cmdline, "quiet", 5, 0)>>}
    /\ NoFilesNamed
    /\ StoredHeader(hist.disk0).page_size >= sizeof_boot_img_hdr
    /\ Len(hist.disk0.data) >= ExactTotal(StoredHeader(hist.disk0))

\* the bytes of a section of header h in file d
SectionAt(d, off, size) ==
    IF size = 0 THEN <<>> ELSE ReadAt(d.data, off, size).data

\* C9: an update that names no replacement section succeeds for every valid
\* image, also one with a second stage, and leaves the kernel, the ramdisk
\* and the second stage of the file as they were.
HeaderOnlyUpdateSucceeds ==
    HeaderOnlyUpdate =>
        LET h == StoredHeader(hist.disk0)
            x == ExactPages(h)
            ps == h.page_size
        IN  /\ pc = "done"
            /\ SectionAt(disk, ps, h.kernel_size)
                  = SectionAt(hist.disk0, ps, h.kernel_size)
            /\ SectionAt(disk, (1 + x.n) * ps, h.ramdisk_size)
                  = SectionAt(hist.disk0, (1 + x.n) * ps, h.ramdisk_size)
            /\ SectionAt(disk, (1 + x.n + x.m) * ps, h.second_size)
                  = SectionAt(hist.disk0, (1 + x.n + x.m) * ps, h.second_size)

\* update_images has returned
ImagesLoaded == pc \in {"check", "write"}

\* C10 as stated: when the computed total_size does not exceed the size fixed
\* before, the size of the image becomes the computed total_size.
SizeBecomesTotal ==
    (ImagesLoaded /\ hist.size0 # 0 /\ TotalSize(img.header) <= hist.size0) =>
        img.size = TotalSize(img.header)

\* C10: when update_images returns, the size of the image is the computed
\* total_size if no size was fixed before (size 0), and else the size fixed
\* before (the length of the file, the size of the device or the bootsize of
\* the config), which the computed total_size does not exceed.
SizeAdoptedOnlyWhenUnset ==
    ImagesLoaded =>
        IF hist.size0 = 0
        THEN img.size = TotalSize(img.header)
        ELSE img.size = hist.size0 /\ TotalSize(img.header) <= hist.size0

\* an update of a file longer than the new layout
SizeKeptAboveTotal ==
    /\ ImagesLoaded
    /\ cmd = "update"
    /\ ~hist.disk0.blk
    /\ hist.size0 > TotalSize(img.header)

\* the keys of the config
ExactKeys ==
    {K_cmdline, K_name, K_bootsize, K_pagesize, K_kerneladdr, K_ramdiskaddr,
     K_secondaddr, K_tagsaddr}

\* update_header has run on a config text
ConfigApplied ==
    /\ cmd \in {"update", "create"}
    /\ pc \in {"update_images", "check", "write", "done", "aborted", "crashed"}
    /\ args.config # <<>>

\* the header the command had when update_header began
HeaderBeforeConfig ==
    IF cmd = "create" THEN NewHeader ELSE StoredHeader(hist.disk0)

\* update_header_entry's abort_printf("bad config entry")
ConfigError == pc = "aborted" /\ err = "config"

\* C11: a config line whose key is not exactly one of the eight keys, "foo"
\* or a key that only starts with one such as "names", is a fatal config
\* error and changes no header field.
OtherKeysRejected ==
    (ConfigApplied /\ args.config[1].token \notin ExactKeys) =>
        ConfigError /\ img.header = HeaderBeforeConfig

\* the reads update_images makes of the original image, in an update
CopyReads(sec) ==
    IF cmd = "update" /\ pc \in {"write", "done", "aborted", "crashed"}
    THEN Accesses("read", sec)
    ELSE {}

\* C12: in an update every section copied forward is read from the original
\* image at the offset the layout of its stored header gives (its own sizes
\* and its own page_size), also when the config changes page_size.  The
\* stored header is one whose sizes do not wrap around.
CopyReadsAtSourceOffsets ==
    LET h == StoredHeader(hist.disk0)
        x == ExactPages(h)
        ps == h.page_size
    IN  \A sec \in {"ramdisk", "second", "dtbs"} :
            \A k \in CopyReads(sec) :
                NoWrap(h) =>
                    ev[k].off = (1 + x.n
                                   + (IF sec = "ramdisk" THEN 0 ELSE x.m)
                                   + (IF sec = "dtbs" THEN x.o ELSE 0)) * ps

\* write_bootimg has run to its end or to a crash, on an image that holds
\* the buffer of its second stage if it has one
WriterRan ==
    /\ cmd \in {"update", "create"}
    /\ pc \in {"done", "crashed"}
    /\ Accesses("write", "header") # {}
    /\ img.header.second_size # 0 => img.second.set

WrittenAt(sec, off) == \E k \in Accesses("write", sec) : ev[k].off = off

\* C13: for every nonzero page_size, also one smaller than the header, the
\* writer puts the header at 0, the kernel at page_size, the ramdisk at
\* (1+n)*page_size, the second stage at (1+n+m)*page_size, the device tree
\* table at (1+n+m+o)*page_size and the signature at (1+n+m+o+p)*page_size,
\* for each section it holds, and ends normally.
WriterPlacesSections ==
    (WriterRan /\ NoWrap(img.header)) =>
        LET h == img.header
            x == ExactPages(h)
            ps == h.page_size
        IN  /\ pc = "done"
            /\ WrittenAt("header", 0)
            /\ img.kernel.set => WrittenAt("kernel", ps)
            /\ img.ramdisk.set => WrittenAt("ramdisk", (1 + x.n) * ps)
            /\ img.second.set => WrittenAt("second", (1 + x.n + x.m) * ps)
            /\ img.dtbh.set => WrittenAt("dtbh", (1 + x.n + x.m + x.o) * ps)
            /\ WrittenAt("signature", (1 + x.n + x.m + x.o + x.p) * ps)

\* the reads of at least one byte extract makes of a section
ExtractReads(sec) ==
    IF cmd = "extract" THEN {k \in Accesses("read", sec) : ev[k].len > 0} ELSE {}

\* C14: extract reads the second stage at (1+n+m)*page_size and the device
\* tree region at (1+n+m+o)*page_size, n, m and o rounded up one by one: the
\* offsets of the writer and of the update.
ExtractReadsAtLayoutOffsets ==
    NoWrap(img.header) =>
        LET h == img.header
            x == ExactPages(h)
            ps == h.page_size
        IN  /\ \A k \in ExtractReads("kernel") : ev[k].off = ps
            /\ \A k \in ExtractReads("ramdisk") : ev[k].off = (1 + x.n) * ps
            /\ \A k \in ExtractReads("second") : ev[k].off = (1 + x.n + x.m) * ps
            /\ \A k \in ExtractReads("dtbs") :
                  ev[k].off = (1 + x.n + x.m + x.o) * ps

\* a command that reads an image whose stored header has page_size = 0
ReadsPageSizeZero ==
    /\ cmd \in ReadCommands
    /\ hist.disk0.exists
    /\ Len(hist.disk0.data) >= sizeof_boot_img_hdr
    /\ StoredHeader(hist.disk0).page_size = 0

\* an update or a create whose config has set page_size to 0
ConfigPageSizeZero == ConfigApplied /\ img.header.page_size = 0

\* C15: page_size = 0 is refused in every command: a stored header with
\* page_size 0 is rejected by the reader, a config that sets it to 0 makes
\* update and create fail in update_images; in both cases the command ends
\* with an error, not with a division by zero, and has made no write access
\* to the target.
PageSizeZeroRejected ==
    /\ ReadsPageSizeZero =>
          /\ pc \in {"open", "read_header", "aborted"}
          /\ pc = "aborted" => err = "format"
          /\ Accesses("write", "header") = {}
          /\ disk = hist.disk0
    /\ ConfigPageSizeZero =>
          /\ pc \in {"update_images", "aborted"}
          /\ pc = "aborted" => err = "page size is null"
          /\ \A k \in 1..Len(ev) : ev[k].op # "write"

\* an update stopped by pagesize = 0 in its config
UpdateWithPageSizeZero ==
    /\ ConfigPageSizeZero
    /\ cmd = "update"
    /\ pc = "aborted"
    /\ err = "page size is null"
    /\ disk = hist.disk0

\* update_images has gone through its device tree step with a table file
DtbsFileGiven ==
    /\ cmd \in {"update", "create"}
    /\ pc \in {"check", "write", "done", "aborted", "crashed"}
    /\ args.dtbs_f.present
    /\ img.header.page_size # 0

\* the bytes allocated for the table the image holds: one page for a table
\* read from a file, dtbs_size for one copied from the original image
TableAllocated ==
    IF args.dtbs_f.present THEN img.header.page_size ELSE Len(img.dtbh.data)

\* C16: the table header and its num_entries entries fit the buffer
\* allocated for the table, and a table file longer than one page is
\* rejected, not read.
TableFitsItsBuffer ==
    /\ (DtbsFileGiven /\ Len(args.dtbs_f.dtbh) > img.header.page_size) =>
          pc = "aborted" /\ ~img.dtbh.set
    /\ (cmd \in {"update", "create"} /\ img.dtbh.set) =>
          /\ NumEntries(img.dtbh.data) >= 0
          /\ sizeof_dtbs_t + NumEntries(img.dtbh.data) * sizeof_dt_entry_t
                <= TableAllocated

\* a command that ended normally after writing a device tree region
DtbRegionWritten ==
    /\ cmd \in {"update", "create"}
    /\ pc = "done"
    /\ img.dtbh.set

\* the writes of the blobs, in the order they were made
BlobWrites == Accesses("write", "dtb")
BlobIndex(k) == Cardinality({j \in BlobWrites : j < k})

\* the writes made between the seek to the region and the seek to the signature
RegionWrites ==
    {k \in 1..Len(ev) :
        /\ ev[k].op = "write"
        /\ \E a \in Accesses("write", "dtbh") : a <= k
        /\ \A b \in Accesses("write", "signature") : k < b}

RECURSIVE BytesWritten(_)
BytesWritten(S) ==
    IF S = {} THEN 0
    ELSE LET k == CHOOSE x \in S : TRUE IN ev[k].len + BytesWritten(S \ {k})

\* the table as it stands in the output file
OutputTable(base) ==
    SubSeq(disk.data, base + 1, Min(Len(disk.data), base + img.header.page_size))

\* the blob written by ev[k] is followed by zeros up to a page boundary
PaddedToPage(k, base, ps) ==
    LET e == ev[k].off + ev[k].len
    IN  \/ (e - base) % ps = 0
        \/ /\ k + 1 <= Len(ev)
           /\ ev[k + 1].op = "write" /\ ev[k + 1].sec = "pad"
           /\ ev[k + 1].off = e
           /\ (e + ev[k + 1].len - base) % ps = 0

\* C17: after a successful update or create that writes a device tree
\* region, replaced or copied forward, the bytes of every blob i start at the
\* region offset that entry i of the table in the output carries, every blob
\* is followed by zeros up to a page boundary, and the bytes written for the
\* region are dtbs_size in all.
DtbOutputConsistent ==
    DtbRegionWritten =>
        LET h == img.header
            x == ExactPages(h)
            ps == h.page_size
            base == (1 + x.n + x.m + x.o) * ps
            tbl == OutputTable(base)
        IN  /\ Cardinality(BlobWrites) = NumEntries(tbl)
            /\ \A k \in BlobWrites :
                  /\ ev[k].off - base = EntryAt(tbl, BlobIndex(k)).offset
                  /\ ev[k].len = EntryAt(tbl, BlobIndex(k)).dtb_size
                  /\ PaddedToPage(k, base, ps)
            /\ BytesWritten(RegionWrites) = h.dtbs_size

\* an extract that has ended on an accepted image without device tree region
ExtractedWithoutDtbs ==
    /\ cmd = "extract"
    /\ Ended
    /\ HeaderWasRead
    /\ ~RejectedByReader
    /\ img.header.dtbs_size = 0

\* C18: extract of an accepted image with dtbs_size = 0 ends without error,
\* writes the config, the kernel and the ramdisk, and the second stage when
\* there is one, and makes no read for the device tree region.
ExtractSkipsAbsentDtbs ==
    ExtractedWithoutDtbs =>
        /\ pc = "done"
        /\ Accesses("read", "dtbs") = {}
        /\ out.config.present
        /\ out.kernel.present
        /\ out.ramdisk.present
        /\ img.header.second_size # 0 => out.second.present

\* the bytes a copy of a section took from the original image
CopiedBuffer(sec) ==
    IF sec = "ramdisk" THEN img.ramdisk.data
    ELSE IF sec = "second" THEN img.second.data
    ELSE img.dtbh.data

Writes == {k \in 1..Len(ev) : ev[k].op = "write"}
Reads == {k \in 1..Len(ev) : ev[k].op = "read"}

\* C19: in an update every read of the image, the header read and the reads
\* that copy the ramdisk, the second stage and the device tree region, and
\* the capacity check come before the first write to the file: the file is
\* as it was until the first write, a write is made only with
\* total_size <= size, and each copy holds the bytes of the original file.
ReadsPrecedeWrites ==
    cmd = "update" =>
        /\ \A r \in Reads, w \in Writes : r < w
        /\ Writes = {} => disk = hist.disk0
        /\ Writes # {} => TotalSize(img.header) <= img.size
        /\ \A sec \in {"ramdisk", "second", "dtbs"} :
              \A k \in Accesses("read", sec) :
                  (pc \in {"write", "done"}) =>
                      CopiedBuffer(sec)
                          = ReadAt(hist.disk0.data, ev[k].off, ev[k].len).data

\* an update that copied the ramdisk and the device tree region forward and
\* wrote them at other offsets, behind a larger kernel
CopiesWrittenAfterReads ==
    /\ cmd = "update"
    /\ pc = "done"
    /\ \E r \in Accesses("read", "ramdisk"), w \in Accesses("write", "ramdisk") :
          ev[r].off < ev[w].off
    /\ Accesses("read", "dtbs") # {}
    /\ Accesses("write", "dtb") # {}
    /\ disk # hist.disk0

\* check_boot_img_header has accepted header h for a container of size bytes:
\* the header of the file in a command that reads an image, the header built
\* by create
AcceptedHeaders ==
    IF HeaderWasRead /\ ~RejectedByReader
    THEN {[h |-> StoredHeader(hist.disk0), size |-> Len(hist.disk0.data)]}
    ELSE IF cmd = "create" /\ pc \in {"write", "done"}
    THEN {[h |-> img.header, size |-> img.size]}
    ELSE {}

\* C20: check_boot_img_header accepts no header whose layout total, computed
\* in unbounded integers as page_size * (1 + the four page counts rounded
\* up), exceeds the size of the container: the wrapped computation yields no
\* smaller value than the exact one for an accepted header.
NoOverflowBypass ==
    \A a \in AcceptedHeaders :
        /\ ExactSignatureOff(a.h) <= a.size
        /\ CheckedSize(a.h) >= ExactSignatureOff(a.h)

\* a create that ended normally, with a page that holds the header and is
\* larger than the signature
CreateDone ==
    /\ cmd = "create"
    /\ pc = "done"
    /\ img.header.page_size >= sizeof_boot_img_hdr
    /\ img.header.page_size > sizeof_signature

\* the bytes of file d from offset a up to offset b are zero
ZeroBetween(d, a, b) ==
    \A j \in (a + 1)..b : j <= Len(d.data) /\ d.data[j] = ZERO

\* a section of size bytes stands at off in d, with zeros up to the next page
SectionStands(d, off, buf, size, ps) ==
    /\ SectionAt(d, off, size) = Take(buf, 0, size)
    /\ ZeroBetween(d, off + size, off + CeilDiv(size, ps) * ps)

\* the header, the kernel, the ramdisk, the second stage and the signature
\* stand in the file at their layout offsets, each followed by zeros up to
\* the next page boundary
SectionsStand ==
    LET h == img.header
        x == ExactPages(h)
        ps == h.page_size
    IN  /\ StoredHeader(disk) = h
        /\ ZeroBetween(disk, sizeof_boot_img_hdr, ps)
        /\ SectionStands(disk, ps, img.kernel.data, h.kernel_size, ps)
        /\ SectionStands(disk, (1 + x.n) * ps, img.ramdisk.data, h.ramdisk_size, ps)
        /\ SectionStands(disk, (1 + x.n + x.m) * ps, img.second.data,
                         h.second_size, ps)
        /\ SectionStands(disk, (1 + x.n + x.m + x.o + x.p) * ps, img.signature,
                         sizeof_signature, ps)

\* (2+n+m+o+p)*page_size
ExactLength == ExactTotal(img.header)

\* C21, as stated: after a successful create with a page that holds the
\* header and is larger than the signature, the kernel, the ramdisk and the
\* second stage stand in the file as their buffers, the bytes from the end of
\* each section to the next page boundary are zero, also when a size is a
\* page multiple and the writer emits a whole page of zeros, the signature
\* stands at (1+n+m+o+p)*page_size and the file is (2+n+m+o+p)*page_size long.
PaddingKeepsSections ==
    CreateDone => SectionsStand /\ Len(disk.data) = ExactLength

\* C21, amended: the same, the length being (2+n+m+o+p)*page_size for a
\* regular file; a block device keeps its length, which is at least that.
PaddingKeepsSectionsOfTarget ==
    CreateDone =>
        /\ SectionsStand
        /\ IF disk.blk
           THEN Len(disk.data) = Len(hist.disk0.data) /\ Len(disk.data) >= ExactLength
           ELSE Len(disk.data) = ExactLength

\* a create whose ramdisk fills its pages exactly and is the last section:
\* the writer emitted a whole page of zeros after it, where the signature
\* was then written
FullPagesPadded ==
    /\ CreateDone
    /\ ~disk.blk
    /\ img.header.ramdisk_size % img.header.page_size = 0
    /\ img.header.second_size = 0
    /\ img.header.dtbs_size = 0
    /\ \E k \in Accesses("write", "pad"), g \in Accesses("write", "signature") :
          /\ ev[k].len = img.header.page_size
          /\ ev[k].off = ev[g].off
          /\ k < g

\* read_header accepts file d: the header can be read and
\* check_boot_img_header returns 0 for it and the length of the file
ReaderAccepts(d) ==
    /\ d.exists
    /\ Len(d.data) >= sizeof_boot_img_hdr
    /\ ~check_boot_img_header(StoredHeader(d), U(Len(d.data)))

\* a create or an update has ended normally
ImageLeft == cmd \in {"update", "create"} /\ pc = "done"

\* the command before this one was a create or an update that ended normally
\* and this one has read the header of the file it left
ReopenedAfterWrite ==
    /\ last.cmd \in {"update", "create"}
    /\ last.pc = "done"
    /\ cmd \in ReadCommands
    /\ pc \notin {"start", "open", "read_header"}

\* C22: the file a successful create or update leaves is accepted by the
\* reader: its magic is "ANDROID!", its kernel_size, ramdisk_size and
\* page_size are not 0, the layout total of its header does not exceed its
\* length, and a command that reopens it is not refused by read_header.
WrittenImageIsValid ==
    /\ ImageLeft =>
          LET h == StoredHeader(disk)
          IN  /\ ReaderAccepts(disk)
              /\ h.magic = "ANDROID!"
              /\ h.kernel_size # 0
              /\ h.ramdisk_size # 0
              /\ h.page_size # 0
              /\ CheckedSize(h) <= Len(disk.data)
    /\ ReopenedAfterWrite => ReaderAccepts(hist.disk0) /\ ~RejectedByReader

\* an extract has read, and not refused, the header of a file left by an
\* update that replaced the kernel and applied a config line
ReopenedAndAccepted ==
    /\ ReopenedAfterWrite
    /\ pc = "extract"
    /\ last.cmd = "update"
    /\ last.args.kernel_f.present
    /\ last.args.config # <<>>

====
